---- MODULE Spec2Model ----
(***************************************************************************)
(* The gallery application: the image editor (ImageEditor component: its   *)
(* parameter state, the load effect, the render effect with applyFilters   *)
(* and applySharpen over the canvas 2D surface, and the save handler), the *)
(* Gallery page (loadMedia, handleUpload, handleDelete, the editor's       *)
(* onSave), the 3D viewer's index and the auth provider.                   *)
(*                                                                         *)
(* Conventions.                                                            *)
(*  - Byte buffers (ImageData.data) are sequences of 0..255; the JS index  *)
(*    idx is the TLA+ index idx + 1.                                       *)
(*  - A canvas bitmap is [width, height, data]; a bitmap whose pixels are  *)
(*    all transparent black is kept in the compact form data = <<>>.       *)
(*  - A JS number that takes fractional values (zoom) is an IEEE double,   *)
(*    kept exactly as [t, d]: the value (t * 2^55 + d) / (10 * 2^55).      *)
(*  - sharpness / 100 (the kernel amount) is kept in hundredths; the       *)
(*    sharpness inputs of the model are multiples of 25, for which the     *)
(*    double arithmetic of the kernel is exact.                            *)
(*  - Image pixels have alpha 0 or 255, for which the premultiplied        *)
(*    storage of the canvas loses nothing.                                 *)
(*                                                                         *)
(* The editor is checked as five specifications over the same state and    *)
(* actions: Spec (sliders and Rotate), SpecZoom (zoom buttons), SpecSave   *)
(* (Save), SpecRender (the render for every combination of parameters) and *)
(* SpecLoad (imageUrl changes and the decodes they start).  The page is    *)
(* checked as SpecGallery (listing, delete, editor, 3D switch) and         *)
(* SpecUpload (listing, upload, delete), both under the fairness that the  *)
(* Media Store answers every request; the viewer as SpecViewer and the     *)
(* auth provider as SpecAuth.  A specification keeps the components it     *)
(* does not exercise at their unmounted values.                            *)
(***************************************************************************)
EXTENDS Integers, Sequences, FiniteSets, TLC

VARIABLES
    imageUrl,      \* prop imageUrl
    loading,       \* src of the Image objects whose decode is in flight
    image,         \* state image (NoImage is null)
    brightness, contrast, saturation, sharpness, rotation, zoom,
    canvas,        \* canvasRef.current: the bitmap of the <canvas>
    ctx,           \* state of the canvas' 2D context
    imageData,     \* applyFilters' local imageData (pre-sharpen pixels)
    sharpened,     \* applyFilters' local sharpened (applySharpen's output)
    toBlobPending, \* blobs whose toBlob callback has not run yet
    onSaveBlob,    \* the last blob handed to props.onSave
    broken         \* src of the Image objects whose decode has failed

(* Gallery page (Gallery.tsx) and its collaborators *)
VARIABLES
    user,          \* useAuth().user (NoUser is null)
    store,         \* Media Store: the names of the files under the user's folder
    now,           \* the clock Date.now() reads
    media,         \* state media
    galleryLoading, \* state loading of Gallery
    uploading,     \* state uploading
    editingMedia,  \* state editingMedia (NoItem is null)
    deleteDialog,  \* state deleteDialog (NoItem is null)
    view,          \* searchParams.get('view')
    toasts,        \* the titles of the toasts shown, in order
    upload,        \* the handleUpload call in progress
    saves,         \* the onSave calls awaiting the store
    lists,         \* the loadMedia calls awaiting the store
    deletes        \* the handleDelete calls awaiting the store

(* 3D viewer (ThreeDViewer.tsx) *)
VARIABLES
    currentIndex   \* state currentIndex

(* Auth provider (AuthContext.tsx) *)
VARIABLES
    session,       \* state session (NoSession is null)
    username,      \* state username (NoName is null)
    theme,         \* state theme
    authLoading,   \* state loading of AuthProvider
    authSession,   \* the session the auth client holds
    authEvents,    \* auth state changes whose callback has not run yet
    getSessionPending, \* getSession() has not resolved yet
    timers,        \* user ids of the setTimeout callbacks not yet run
    fetches,       \* user ids of the fetchProfile calls awaiting the Profile Store
    signOuts       \* signOut calls: awaiting auth.signOut()

editorVars == <<imageUrl, loading, image, brightness, contrast, saturation, sharpness,
                rotation, zoom, canvas, ctx, imageData, sharpened, toBlobPending,
                onSaveBlob, broken>>

galleryVars == <<store, now, media, galleryLoading, uploading, editingMedia,
                 deleteDialog, view, toasts, upload, saves, lists, deletes>>

viewerVars == <<currentIndex>>

authVars == <<user, session, username, theme, authLoading, authSession, authEvents,
              getSessionPending, timers, fetches, signOuts>>

outsideEditor == <<galleryVars, viewerVars, authVars>>

vars == <<editorVars, galleryVars, viewerVars, authVars>>

----------------------------------------------------------------------------
(* Bounds of the model *)

ImgW == 3
ImgH == 3
MaxPendingBlobs == 1

(* Inputs of the model *)

Urls == {"a.png", "b.png"}
BrightnessInputs == {50, 100, 250}
ContrastInputs == {-20, 100, 150}
SaturationInputs == {0, 100, 200}
SharpnessInputs == {0, 50, 100, 150}

----------------------------------------------------------------------------
(* Numbers *)

MathMin(a, b) == IF a < b THEN a ELSE b
MathMax(a, b) == IF a > b THEN a ELSE b
Abs(n) == IF n < 0 THEN -n ELSE n

\* n / d rounded to the nearest integer, halves up (d > 0, any n)
RoundDiv(n, d) == (2 * n + d) \div (2 * d)

ClampByte(n) == MathMin(255, MathMax(0, n))

\* The store into a Uint8ClampedArray of the number v100 / 100:
\* clamped to [0,255] and rounded to the nearest integer, halves to even.
ToUint8Clamp(v100) ==
    LET v == MathMin(25500, MathMax(0, v100))
        q == v \div 100
        r == v % 100
    IN  IF r < 50 THEN q
        ELSE IF r > 50 THEN q + 1
        ELSE IF q % 2 = 0 THEN q ELSE q + 1

----------------------------------------------------------------------------
(* IEEE doubles [t, d]: the value (t * 2^55 + d) / (10 * 2^55).            *)
(* 2^55 mod 320 = 128, and the spacing of the doubles in [2^e, 2^(e+1)) is *)
(* 80 * 2^e of these units.                                                *)

Dbl(t, d) == [t |-> t, d |-> d]
PointOne == Dbl(1, 2)          \* the double 0.1 = 0.1000000000000000055...
Half == Dbl(5, 0)
One == Dbl(10, 0)
Three == Dbl(30, 0)

DblLess(x, y) == x.t < y.t \/ (x.t = y.t /\ x.d < y.d)
DblMin(x, y) == IF DblLess(y, x) THEN y ELSE x
DblMax(x, y) == IF DblLess(x, y) THEN y ELSE x
DblNeg(x) == Dbl(-x.t, -x.d)

\* spacing of the doubles around the exact value [t, d] (0.25 <= value < 4)
Ulp(t, d) ==
    LET Ge(T) == t > T \/ (t = T /\ d >= 0)
    IN  IF Ge(20) THEN 160 ELSE IF Ge(10) THEN 80 ELSE IF Ge(5) THEN 40 ELSE 20

\* x + y in double arithmetic: the exact sum rounded to nearest, ties to even
DblAdd(x, y) ==
    LET t == x.t + y.t
        d == x.d + y.d
        q == Ulp(t, d)
        m == (t * 128 + d) % 320
        r == m % q
    IN  IF r = 0 THEN Dbl(t, d)
        ELSE IF 2 * r < q \/ (2 * r = q /\ (m - r) % (2 * q) = 0)
             THEN Dbl(t, d - r)
             ELSE Dbl(t, d + q - r)

----------------------------------------------------------------------------
(* Images and bitmaps *)

NoImage == [src |-> "", width |-> 0, height |-> 0, data |-> <<>>]

\* What the decode of a URL yields: "a.png" is opaque, "b.png" is one pixel
\* wider and has fully transparent pixels.
Decode(url) ==
    LET w == IF url = "a.png" THEN ImgW ELSE ImgW + 1
        h == ImgH
        Sample(j) ==
            LET p == j \div 4
                c == j % 4
                x == p % w
                y == p \div w
            IN  IF c = 3
                THEN (IF url = "b.png" /\ (x + 2 * y) % 4 = 0 THEN 0 ELSE 255)
                ELSE IF url = "a.png"
                     THEN (x * 100 + y * 37 + c * 61) % 256
                     ELSE (200 + x * 45 + y * 150 + c * 20) % 256
    IN  [src |-> url, width |-> w, height |-> h,
         data |-> [i \in 1..(w * h * 4) |-> Sample(i - 1)]]

\* the bitmap of a <canvas> that has never been sized: 300 x 150, transparent
DefaultCanvas == [width |-> 300, height |-> 150, data |-> <<>>]

\* f itself; the comparison makes the model checker tabulate f once instead of
\* evaluating its expression at every application
Force(f) == IF f = <<>> THEN <<>> ELSE f

Compact(bytes) ==
    LET data == Force(bytes)
    IN  IF \A i \in DOMAIN data : data[i] = 0 THEN <<>> ELSE data

\* the byte at JS index j of a bitmap
ByteAt(bm, j) == IF bm.data = <<>> THEN 0 ELSE bm.data[j + 1]

NoImageData == [width |-> 0, height |-> 0, data |-> <<>>]

----------------------------------------------------------------------------
(* The 2D context: current transform, filter and the save() stack.         *)
(* A transform is the affine matrix (a b c d e f) / den.                   *)

Identity == [a |-> 1, b |-> 0, c |-> 0, d |-> 1, e |-> 0, f |-> 0, den |-> 1]

RECURSIVE Gcd(_, _)
Gcd(m, n) == IF n = 0 THEN Abs(m) ELSE Gcd(n, m % Abs(n))

Lowest(M) ==
    LET g == Gcd(M.a, Gcd(M.b, Gcd(M.c, Gcd(M.d, Gcd(M.e, Gcd(M.f, M.den))))))
    IN  [a |-> M.a \div g, b |-> M.b \div g, c |-> M.c \div g, d |-> M.d \div g,
         e |-> M.e \div g, f |-> M.f \div g, den |-> M.den \div g]

\* the current transform M post-multiplied by T
Compose(M, T) ==
    Lowest([a |-> M.a * T.a + M.c * T.b,
            b |-> M.b * T.a + M.d * T.b,
            c |-> M.a * T.c + M.c * T.d,
            d |-> M.b * T.c + M.d * T.d,
            e |-> M.a * T.e + M.c * T.f + M.e * T.den,
            f |-> M.b * T.e + M.d * T.f + M.f * T.den,
            den |-> M.den * T.den])

NoFilter == [on |-> FALSE, brightness |-> 100, contrast |-> 100, saturate |-> 100]

DefaultCtx == [transform |-> Identity, filter |-> NoFilter, stack |-> <<>>]

\* ctx.save()
CtxSave(cx) ==
    [cx EXCEPT !.stack = Append(@, [transform |-> cx.transform, filter |-> cx.filter])]

\* ctx.restore()
CtxRestore(cx) ==
    IF cx.stack = <<>> THEN cx
    ELSE LET top == cx.stack[Len(cx.stack)]
         IN  [transform |-> top.transform, filter |-> top.filter,
              stack |-> SubSeq(cx.stack, 1, Len(cx.stack) - 1)]

\* ctx.translate(nx / dn, ny / dn)
CtxTranslate(cx, nx, ny, dn) ==
    [cx EXCEPT !.transform =
        Compose(@, [a |-> dn, b |-> 0, c |-> 0, d |-> dn, e |-> nx, f |-> ny, den |-> dn])]

Cos(deg) == IF deg % 360 = 0 THEN 1 ELSE IF deg % 360 = 180 THEN -1 ELSE 0
Sin(deg) == IF deg % 360 = 90 THEN 1 ELSE IF deg % 360 = 270 THEN -1 ELSE 0

\* ctx.rotate(deg * Math.PI / 180), deg a multiple of 90
CtxRotate(cx, deg) ==
    [cx EXCEPT !.transform =
        Compose(@, [a |-> Cos(deg), b |-> Sin(deg), c |-> -Sin(deg), d |-> Cos(deg),
                    e |-> 0, f |-> 0, den |-> 1])]

\* ctx.scale(z, z), z a double; the matrix takes z to the nearest tenth
CtxScale(cx, z) ==
    [cx EXCEPT !.transform =
        Compose(@, [a |-> z.t, b |-> 0, c |-> 0, d |-> z.t, e |-> 0, f |-> 0, den |-> 10])]

\* ctx.filter = `brightness(b%) contrast(c%) saturate(s%)`: a negative
\* percentage does not parse, and an assignment that does not parse is ignored
CtxSetFilter(cx, b, c, s) ==
    IF b < 0 \/ c < 0 \/ s < 0 THEN cx
    ELSE [cx EXCEPT !.filter = [on |-> TRUE, brightness |-> b, contrast |-> c, saturate |-> s]]

\* canvas.width = w; canvas.height = h: the bitmap is replaced by a
\* transparent one of the new size and the context is reset to its defaults
CanvasSetSize(cv, cx, w, h) ==
    [canvas |-> [cv EXCEPT !.width = w, !.height = h, !.data = <<>>],
     ctx |-> [cx EXCEPT !.transform = Identity, !.filter = NoFilter, !.stack = <<>>]]

\* ctx.clearRect(0, 0, canvas.width, canvas.height)
ClearRect(cv) == [cv EXCEPT !.data = <<>>]

\* The filter applied to a source pixel <<r, g, b, a>>
FilterPixel(px, flt) ==
    IF ~flt.on THEN px
    ELSE LET Br(v) == ClampByte(RoundDiv(v * flt.brightness, 100))
             Co(v) == ClampByte(RoundDiv((2 * v - 255) * flt.contrast + 25500, 200))
             r1 == Co(Br(px[1]))
             g1 == Co(Br(px[2]))
             b1 == Co(Br(px[3]))
             s == flt.saturate
             Sat(wr, wg, wb) ==
                 ClampByte(RoundDiv(wr * r1 + wg * g1 + wb * b1, 100000))
         IN  << Sat(21300 + 787 * s, 71500 - 715 * s, 7200 - 72 * s),
                Sat(21300 - 213 * s, 71500 + 285 * s, 7200 - 72 * s),
                Sat(21300 - 213 * s, 71500 - 715 * s, 7200 + 928 * s),
                px[4] >>

\* source-over compositing of the source pixel s onto the pixel d
SourceOver(s, d) ==
    IF s[4] = 255 THEN s
    ELSE IF s[4] = 0 THEN d
    ELSE LET oa == s[4] * 255 + d[4] * (255 - s[4])        \* alpha * 255
             Ch(k) == RoundDiv(s[k] * s[4] * 255 + d[k] * d[4] * (255 - s[4]), oa)
         IN  << Ch(1), Ch(2), Ch(3), RoundDiv(oa, 255) >>

\* ctx.drawImage(img, 0, 0): every pixel of the bitmap whose centre the
\* inverse of the current transform takes inside the image receives the
\* filtered image pixel found there (nearest sample), source-over
DrawImage(cv, cx, img) ==
    LET M == cx.transform
        D == M.a * M.d - M.b * M.c
        Pixel(x, y) ==
            LET ux == (2 * x + 1) * M.den - 2 * M.e
                uy == (2 * y + 1) * M.den - 2 * M.f
                sx == (M.d * ux - M.c * uy) \div (2 * D)
                sy == (M.a * uy - M.b * ux) \div (2 * D)
                dj == (y * cv.width + x) * 4
                dst == << ByteAt(cv, dj), ByteAt(cv, dj + 1), ByteAt(cv, dj + 2), ByteAt(cv, dj + 3) >>
                sj == (sy * img.width + sx) * 4
            IN  IF sx < 0 \/ sx >= img.width \/ sy < 0 \/ sy >= img.height
                THEN dst
                ELSE SourceOver(FilterPixel(<< img.data[sj + 1], img.data[sj + 2],
                                               img.data[sj + 3], img.data[sj + 4] >>,
                                            cx.filter), dst)
        pixels == Force([p \in 1..(cv.width * cv.height) |->
                            Pixel((p - 1) % cv.width, (p - 1) \div cv.width)])
    IN  IF D = 0 THEN cv
        ELSE [cv EXCEPT !.data =
                Compact([i \in 1..(cv.width * cv.height * 4) |->
                            pixels[((i - 1) \div 4) + 1][((i - 1) % 4) + 1]])]

\* ctx.getImageData(0, 0, canvas.width, canvas.height)
GetImageData(cv) ==
    [width |-> cv.width, height |-> cv.height,
     data |-> Force([i \in 1..(cv.width * cv.height * 4) |-> ByteAt(cv, i - 1)])]

\* ctx.putImageData(id, 0, 0): the pixels replace those of the bitmap, which
\* keeps colours premultiplied: a pixel of alpha 0 is stored transparent black
PutImageData(cv, id) ==
    LET Stored(i) ==
            LET a == id.data[((i - 1) \div 4) * 4 + 4]
            IN  IF a = 255 \/ (i - 1) % 4 = 3 THEN id.data[i]
                ELSE RoundDiv(RoundDiv(id.data[i] * a, 255) * 255, MathMax(a, 1))
    IN  IF id.width = cv.width /\ id.height = cv.height
        THEN [cv EXCEPT !.data = Compact([i \in 1..(cv.width * cv.height * 4) |-> Stored(i)])]
        ELSE cv

----------------------------------------------------------------------------
(* applySharpen(imageData, amount); amount100 is amount in hundredths      *)

\* A variant that also weighs the diagonal neighbours
Kernel_Box(amount100) ==
    << -amount100, -amount100, -amount100,
       -amount100, 100 + 8 * amount100, -amount100,
       -amount100, -amount100, -amount100 >>

Kernel(amount100) ==
    << 0, -amount100, 0,
       -amount100, 100 + 4 * amount100, -amount100,
       0, -amount100, 0 >>

\* the loops over ky and kx, from kernel index kidx on: 100 * sum
RECURSIVE KernelSum(_, _, _, _, _, _, _)
KernelSum(data, width, x, y, c, kernel, kidx) ==
    IF kidx > 8 THEN 0
    ELSE LET ky == (kidx \div 3) - 1
             kx == (kidx % 3) - 1
             idx == ((y + ky) * width + (x + kx)) * 4 + c
         IN  data[idx + 1] * kernel[kidx + 1]
             + KernelSum(data, width, x, y, c, kernel, kidx + 1)

\* A variant that does not copy the alpha channel
applySharpen_NoAlpha(id, amount100) ==
    LET kernel == Kernel(amount100)
        Out(j) ==
            LET p == j \div 4
                c == j % 4
                x == p % id.width
                y == p \div id.width
            IN  IF x < 1 \/ x >= id.width - 1 \/ y < 1 \/ y >= id.height - 1 \/ c = 3
                THEN 0
                ELSE ToUint8Clamp(KernelSum(id.data, id.width, x, y, c, kernel, 0))
    IN  [width |-> id.width, height |-> id.height,
         data |-> Force([i \in 1..(id.width * id.height * 4) |-> Out(i - 1)])]

applySharpen(id, amount100) ==
    LET data == id.data
        width == id.width
        height == id.height
        kernel == Kernel(amount100)
        Out(j) ==
            LET p == j \div 4
                c == j % 4
                x == p % width
                y == p \div width
            IN  IF x < 1 \/ x >= width - 1 \/ y < 1 \/ y >= height - 1
                THEN 0                       \* new ImageData: never written
                ELSE IF c < 3
                     THEN ToUint8Clamp(KernelSum(data, width, x, y, c, kernel, 0))
                     ELSE data[j + 1]
    IN  [width |-> width, height |-> height,
         data |-> Force([i \in 1..(width * height * 4) |-> Out(i - 1)])]

----------------------------------------------------------------------------
(* applyFilters and the render effect.  The result is the new value of     *)
(* canvas, ctx and of the locals imageData and sharpened.                  *)

Unrendered(cv, cx) ==
    [canvas |-> cv, ctx |-> cx, imageData |-> NoImageData, sharpened |-> NoImageData]

\* A variant that sizes the canvas only when its size differs and neither
\* clears it nor saves the context
Composite_NoReset(img, b, c, s, rot, z, cv, cx) ==
    LET sized == IF cv.width = img.width /\ cv.height = img.height
                 THEN [canvas |-> cv, ctx |-> cx]
                 ELSE CanvasSetSize(cv, cx, img.width, img.height)
        cv1 == sized.canvas
        cx2 == CtxTranslate(sized.ctx, cv1.width, cv1.height, 2)
        cx3 == CtxRotate(cx2, rot)
        cx4 == CtxScale(cx3, z)
        cx5 == CtxTranslate(cx4, -cv1.width, -cv1.height, 2)
        cx6 == CtxSetFilter(cx5, b, c, s)
    IN  [canvas |-> DrawImage(cv1, cx6, img), ctx |-> cx6]

\* From "Set canvas size" to "Draw image": the composited image
Composite(img, b, c, s, rot, z, cv, cx) ==
    LET sized == CanvasSetSize(cv, cx, img.width, img.height)
        cv1 == ClearRect(sized.canvas)
        cx1 == CtxSave(sized.ctx)
        cx2 == CtxTranslate(cx1, cv1.width, cv1.height, 2)
        cx3 == CtxRotate(cx2, rot)
        cx4 == CtxScale(cx3, z)
        cx5 == CtxTranslate(cx4, -cv1.width, -cv1.height, 2)
        cx6 == CtxSetFilter(cx5, b, c, s)
    IN  [canvas |-> DrawImage(cv1, cx6, img), ctx |-> cx6]

\* A variant that sharpens whatever the sharpness
Sharpen_Always(comp, sh) ==
    LET pre == GetImageData(comp.canvas)
        out == applySharpen(pre, sh)
    IN  [canvas |-> PutImageData(comp.canvas, out), ctx |-> CtxRestore(comp.ctx),
         imageData |-> pre, sharpened |-> out]

\* "Apply sharpness" and "Restore context state", from the composited image
Sharpen(comp, sh) ==
    IF sh > 0
    THEN LET pre == GetImageData(comp.canvas)
             out == applySharpen(pre, sh)
         IN  [canvas |-> PutImageData(comp.canvas, out), ctx |-> CtxRestore(comp.ctx),
              imageData |-> pre, sharpened |-> out]
    ELSE [canvas |-> comp.canvas, ctx |-> CtxRestore(comp.ctx),
          imageData |-> NoImageData, sharpened |-> NoImageData]

applyFilters(img, b, c, s, sh, rot, z, cv, cx) ==
    IF img = NoImage THEN Unrendered(cv, cx)
    ELSE Sharpen(Composite(img, b, c, s, rot, z, cv, cx), sh)

\* A variant that renders without looking at image: a missing image sizes the
\* surface 0 x 0
RenderEffect_Unguarded(img, b, c, s, sh, rot, z, cv, cx) ==
    Sharpen(Composite(img, b, c, s, rot, z, cv, cx), sh)

\* A variant whose effect runs for the first image only
RenderEffect_FirstOnly(img, b, c, s, sh, rot, z, cv, cx) ==
    IF img # NoImage /\ cv = DefaultCanvas
    THEN applyFilters(img, b, c, s, sh, rot, z, cv, cx)
    ELSE [canvas |-> cv, ctx |-> cx, imageData |-> NoImageData, sharpened |-> NoImageData]

\* useEffect(..., [image, brightness, contrast, saturation, sharpness, rotation, zoom])
RenderEffect(img, b, c, s, sh, rot, z, cv, cx) ==
    IF img # NoImage
    THEN applyFilters(img, b, c, s, sh, rot, z, cv, cx)
    ELSE Unrendered(cv, cx)

----------------------------------------------------------------------------
(* State *)

NoBlob == [type |-> "", width |-> 0, height |-> 0, data |-> <<>>]

NoUser == "null"
NoItem == [id |-> <<>>, name |-> <<>>, url |-> <<>>, type |-> "null"]
NoUpload == [user |-> NoUser, files |-> <<>>, i |-> 0, path |-> <<>>]
NoSession == [user |-> NoUser]
NoName == "null"

\* The components other than the editor, none of them mounted: their states
\* as useState creates them, nothing in flight.
GalleryUnmounted ==
    /\ store = {}
    /\ now = 0
    /\ media = <<>>
    /\ galleryLoading = TRUE
    /\ uploading = FALSE
    /\ editingMedia = NoItem
    /\ deleteDialog = NoItem
    /\ view = "grid"
    /\ toasts = <<>>
    /\ upload = NoUpload
    /\ saves = <<>>
    /\ lists = <<>>
    /\ deletes = <<>>

ViewerUnmounted ==
    currentIndex = 0

AuthUnmounted ==
    /\ user = NoUser
    /\ session = NoSession
    /\ username = NoName
    /\ theme = "dark"
    /\ authLoading = TRUE
    /\ authSession = NoSession
    /\ authEvents = <<>>
    /\ getSessionPending = FALSE
    /\ timers = <<>>
    /\ fetches = <<>>
    /\ signOuts = 0

Init ==
    /\ imageUrl \in Urls
    /\ loading = {imageUrl}          \* the load effect has run: decode in flight
    /\ image = NoImage
    /\ brightness = 100
    /\ contrast = 100
    /\ saturation = 100
    /\ sharpness = 0
    /\ rotation = 0
    /\ zoom = One
    /\ canvas = DefaultCanvas
    /\ ctx = DefaultCtx
    /\ imageData = NoImageData
    /\ sharpened = NoImageData
    /\ toBlobPending = <<>>
    /\ onSaveBlob = NoBlob
    /\ broken = {}
    /\ GalleryUnmounted
    /\ ViewerUnmounted
    /\ AuthUnmounted

\* A state update is committed and, when a dependency of the render effect
\* changed, the effect runs before the next event is handled.
Commit(img, b, c, s, sh, rot, z) ==
    /\ image' = img
    /\ brightness' = b
    /\ contrast' = c
    /\ saturation' = s
    /\ sharpness' = sh
    /\ rotation' = rot
    /\ zoom' = z
    /\ IF <<img, b, c, s, sh, rot, z>>
            = <<image, brightness, contrast, saturation, sharpness, rotation, zoom>>
       THEN UNCHANGED <<canvas, ctx, imageData, sharpened>>
       ELSE \E r \in {RenderEffect(img, b, c, s, sh, rot, z, canvas, ctx)} :
                /\ canvas' = r.canvas
                /\ ctx' = r.ctx
                /\ imageData' = r.imageData
                /\ sharpened' = r.sharpened

----------------------------------------------------------------------------
(* Load *)

\* img.onload = () => setImage(img)
ImgOnload ==
    \E u \in loading :
        /\ loading' = loading \ {u}
        /\ Commit(Decode(u), brightness, contrast, saturation, sharpness, rotation, zoom)
        /\ UNCHANGED <<imageUrl, toBlobPending, onSaveBlob>>
        /\ UNCHANGED <<broken, outsideEditor>>

\* the decode fails; the Image has no onerror handler
ImgOnerror ==
    \E u \in loading :
        /\ loading' = loading \ {u}
        /\ broken' = broken \cup {u}
        /\ UNCHANGED <<imageUrl, image, brightness, contrast, saturation, sharpness,
                       rotation, zoom, canvas, ctx, imageData, sharpened,
                       toBlobPending, onSaveBlob>>
        /\ UNCHANGED outsideEditor

\* The owner passes another imageUrl; the load effect runs again: a new
\* Image starts to decode, the Image of the earlier url is neither stopped
\* nor does it lose its onload handler.
SetImageUrl ==
    \E u \in Urls :
        /\ u # imageUrl
        /\ u \notin loading
        /\ u \notin broken
        /\ imageUrl' = u
        /\ loading' = loading \cup {u}
        /\ UNCHANGED <<image, brightness, contrast, saturation, sharpness, rotation, zoom,
                       canvas, ctx, imageData, sharpened, toBlobPending, onSaveBlob>>
        /\ UNCHANGED <<broken, outsideEditor>>

----------------------------------------------------------------------------
(* Sliders: onValueChange={(v) => setX(v[0])} *)

BrightnessValue(v) == v
ContrastValue(v) == v
SaturationValue(v) == v
SharpnessValue(v) == v

SetBrightness ==
    \E v \in BrightnessInputs :
        /\ Commit(image, BrightnessValue(v), contrast, saturation, sharpness, rotation, zoom)
        /\ UNCHANGED <<imageUrl, loading, toBlobPending, onSaveBlob>>
        /\ UNCHANGED <<broken, outsideEditor>>

SetContrast ==
    \E v \in ContrastInputs :
        /\ Commit(image, brightness, ContrastValue(v), saturation, sharpness, rotation, zoom)
        /\ UNCHANGED <<imageUrl, loading, toBlobPending, onSaveBlob>>
        /\ UNCHANGED <<broken, outsideEditor>>

SetSaturation ==
    \E v \in SaturationInputs :
        /\ Commit(image, brightness, contrast, SaturationValue(v), sharpness, rotation, zoom)
        /\ UNCHANGED <<imageUrl, loading, toBlobPending, onSaveBlob>>
        /\ UNCHANGED <<broken, outsideEditor>>

SetSharpness ==
    \E v \in SharpnessInputs :
        /\ Commit(image, brightness, contrast, saturation, SharpnessValue(v), rotation, zoom)
        /\ UNCHANGED <<imageUrl, loading, toBlobPending, onSaveBlob>>
        /\ UNCHANGED <<broken, outsideEditor>>

----------------------------------------------------------------------------
(* Rotate and zoom buttons *)

\* A variant that does not wrap
RotateStep_NoWrap(prev) == prev + 90

\* (prev) => (prev + 90) % 360
RotateStep(prev) == (prev + 90) % 360

\* A variant that does not clamp
ZoomInStep_NoClamp(prev) == DblAdd(prev, PointOne)

\* (prev) => Math.min(prev + 0.1, 3)
ZoomInStep(prev) == DblMin(DblAdd(prev, PointOne), Three)

\* (prev) => Math.max(prev - 0.1, 0.5)
ZoomOutStep(prev) == DblMax(DblAdd(prev, DblNeg(PointOne)), Half)

handleRotate ==
    /\ Commit(image, brightness, contrast, saturation, sharpness, RotateStep(rotation), zoom)
    /\ UNCHANGED <<imageUrl, loading, toBlobPending, onSaveBlob>>
    /\ UNCHANGED <<broken, outsideEditor>>

handleZoomIn ==
    /\ Commit(image, brightness, contrast, saturation, sharpness, rotation, ZoomInStep(zoom))
    /\ UNCHANGED <<imageUrl, loading, toBlobPending, onSaveBlob>>
    /\ UNCHANGED <<broken, outsideEditor>>

handleZoomOut ==
    /\ Commit(image, brightness, contrast, saturation, sharpness, rotation, ZoomOutStep(zoom))
    /\ UNCHANGED <<imageUrl, loading, toBlobPending, onSaveBlob>>
    /\ UNCHANGED <<broken, outsideEditor>>

----------------------------------------------------------------------------
(* Save *)

\* canvas.toBlob(cb, 'image/png'): the PNG of the bitmap as it is now, or no
\* blob when the bitmap has no pixels
ToBlob(cv) ==
    IF cv.width = 0 \/ cv.height = 0 THEN NoBlob
    ELSE [type |-> "image/png", width |-> cv.width, height |-> cv.height, data |-> cv.data]

handleSave ==
    /\ Len(toBlobPending) < MaxPendingBlobs
    /\ toBlobPending' = Append(toBlobPending, ToBlob(canvas))
    /\ UNCHANGED <<imageUrl, loading, image, brightness, contrast, saturation, sharpness,
                   rotation, zoom, canvas, ctx, imageData, sharpened, onSaveBlob>>
    /\ UNCHANGED <<broken, outsideEditor>>

\* (blob) => { if (blob) onSave(blob) }
ToBlobCallback ==
    /\ toBlobPending # <<>>
    /\ toBlobPending' = Tail(toBlobPending)
    /\ onSaveBlob' = IF Head(toBlobPending) # NoBlob THEN Head(toBlobPending) ELSE onSaveBlob
    /\ UNCHANGED <<imageUrl, loading, image, brightness, contrast, saturation, sharpness,
                   rotation, zoom, canvas, ctx, imageData, sharpened>>
    /\ UNCHANGED <<broken, outsideEditor>>

----------------------------------------------------------------------------
(* Gallery: file names *)

\* A string is the sequence of its characters.
Upper == <<"A", "B", "C", "D", "E", "F", "G", "H", "I", "J", "K", "L", "M",
           "N", "O", "P", "Q", "R", "S", "T", "U", "V", "W", "X", "Y", "Z">>
Lower == <<"a", "b", "c", "d", "e", "f", "g", "h", "i", "j", "k", "l", "m",
           "n", "o", "p", "q", "r", "s", "t", "u", "v", "w", "x", "y", "z">>
Digits == <<"0", "1", "2", "3", "4", "5", "6", "7", "8", "9">>

ToLowerCaseChar(ch) ==
    IF \E i \in 1..26 : Upper[i] = ch
    THEN Lower[CHOOSE i \in 1..26 : Upper[i] = ch]
    ELSE ch

\* String.prototype.toLowerCase
toLowerCase(s) == [i \in 1..Len(s) |-> ToLowerCaseChar(s[i])]

EndsWith(s, suffix) ==
    /\ Len(s) >= Len(suffix)
    /\ SubSeq(s, Len(s) - Len(suffix) + 1, Len(s)) = suffix

\* the alternatives of /\.(mp4|webm|mov)$/
VideoSuffixes ==
    {<<".", "m", "p", "4">>, <<".", "w", "e", "b", "m">>, <<".", "m", "o", "v">>}

\* s.match(/\.(mp4|webm|mov)$/) is not null
MatchVideo(s) == \E e \in VideoSuffixes : EndsWith(s, e)

\* A variant that matches the name as it is
isVideo_CaseSensitive(name) == MatchVideo(name)

\* file.name.toLowerCase().match(/\.(mp4|webm|mov)$/)
isVideo(name) == MatchVideo(toLowerCase(name))

\* name.split('.').pop(): what follows the last '.', the whole name without one
FileExt(name) ==
    LET dots == {i \in 1..Len(name) : name[i] = "."}
        last == IF dots = {} THEN 0 ELSE CHOOSE i \in dots : \A j \in dots : j <= i
    IN  SubSeq(name, last + 1, Len(name))

\* `${n}` for a non-negative integer
RECURSIVE NumberToString(_)
NumberToString(n) ==
    IF n < 10 THEN <<Digits[n + 1]>>
    ELSE NumberToString(n \div 10) \o <<Digits[(n % 10) + 1]>>

\* `${Date.now()}.${fileExt}`
UploadFileName(t, fileExt) == NumberToString(t) \o <<".">> \o fileExt

\* `${Date.now()}_edited.${fileExt}`
EditedFileName(t, fileExt) ==
    NumberToString(t) \o <<"_", "e", "d", "i", "t", "e", "d", ".">> \o fileExt

\* `${user.id}/${fileName}`
FilePath(u, fileName) == <<u, fileName>>

\* the MediaItem loadMedia builds for a listed file
MediaItemOf(u, fileName) ==
    [id |-> fileName, name |-> fileName, url |-> FilePath(u, fileName),
     type |-> IF isVideo(fileName) THEN "video" ELSE "image"]

\* media.filter(m => m.type === 'image')
ImagesOf(items) == SelectSeq(items, LAMBDA m : m.type = "image")

----------------------------------------------------------------------------
(* Gallery: inputs and bounds *)

MaxNow == 1          \* the clock stops advancing there
MaxToasts == 3       \* no operation starts once this many toasts are due

Users == {"u1"}

\* the files the user can pick in the file dialog, by name
PngA == <<"a", ".", "p", "n", "g">>
PngC == <<"c", ".", "p", "n", "g">>
Mp4B == <<"b", ".", "M", "P", "4">>
Mov == <<"m", "o", "v">>
Batches == {<<Mp4B, PngA, PngC>>}

\* files already in the user's folder when the page opens
StoredNames == {<<"d", ".", "W", "e", "b", "M">>,
                <<"e", ".", "m", "o", "v", ".", "j", "p", "g">>,
                Mp4B, Mov}
MaxStored == 2       \* at most this many of them

----------------------------------------------------------------------------
(* Gallery: the Media Store *)

RECURSIVE InOrder(_)
InOrder(names) ==
    IF names = {} THEN <<>>
    ELSE LET first == CHOOSE n \in names : TRUE
         IN  <<first>> \o InOrder(names \ {first})

\* the names storage.list(user.id) finds
ListedNames(u) == {p[2] : p \in {q \in store : q[1] = u}}

\* what storage.list returns: the names, once each, in the order of the store
\* (the model takes one order)
Listing(u) == InOrder(ListedNames(u))

RemoveAt(s, k) == SubSeq(s, 1, k - 1) \o SubSeq(s, k + 1, Len(s))

----------------------------------------------------------------------------
(* Gallery: loadMedia *)

\* the toasts the operations in progress may still show
ToastsDue ==
    (IF upload = NoUpload THEN 0 ELSE 2) + Len(lists) + 2 * Len(saves) + 2 * Len(deletes)

CanStart(k) == Len(toasts) + ToastsDue + k <= MaxToasts

\* loadMedia() up to its await: if (!user) return; storage.list(user.id, ...)
LoadMediaCall(calls, u) ==
    IF u = NoUser THEN calls ELSE Append(calls, [user |-> u])

\* data.map((file) => ...)
MediaItems(u, data) == [i \in 1..Len(data) |-> MediaItemOf(u, data[i])]

\* list resolves without error: setMedia(mediaItems); finally setLoading(false)
ListSucceeds ==
    \E k \in 1..Len(lists) :
        /\ lists' = RemoveAt(lists, k)
        /\ media' = MediaItems(lists[k].user, Listing(lists[k].user))
        /\ galleryLoading' = FALSE
        /\ UNCHANGED <<store, now, uploading, editingMedia, deleteDialog, view,
                       toasts, upload, saves, deletes>>
        /\ UNCHANGED <<editorVars, viewerVars, authVars>>

\* list resolves with an error: throw, catch (toast), finally setLoading(false)
ListFails ==
    \E k \in 1..Len(lists) :
        /\ lists' = RemoveAt(lists, k)
        /\ toasts' = Append(toasts, "Error loading media")
        /\ galleryLoading' = FALSE
        /\ UNCHANGED <<store, now, media, uploading, editingMedia, deleteDialog, view,
                       upload, saves, deletes>>
        /\ UNCHANGED <<editorVars, viewerVars, authVars>>

----------------------------------------------------------------------------
(* Gallery: handleUpload *)

\* the clock advances
Tick ==
    /\ now < MaxNow
    /\ now' = now + 1
    /\ UNCHANGED <<store, media, galleryLoading, uploading, editingMedia, deleteDialog,
                   view, toasts, upload, saves, lists, deletes>>
    /\ UNCHANGED <<editorVars, viewerVars, authVars>>

\* one iteration of the loop up to its await: the path of file i at time t
UploadPath(u, file, t) == FilePath(u, UploadFileName(t, FileExt(file)))

\* the input's onChange, up to the first await
handleUpload ==
    \E files \in Batches :
        /\ view = "grid"
        /\ ~uploading                     \* disabled={uploading}
        /\ user # NoUser
        /\ CanStart(2)
        /\ uploading' = TRUE
        /\ upload' = [user |-> user, files |-> files, i |-> 1,
                      path |-> UploadPath(user, files[1], now)]
        /\ UNCHANGED <<store, now, media, galleryLoading, editingMedia, deleteDialog,
                       view, toasts, saves, lists, deletes>>
        /\ UNCHANGED <<editorVars, viewerVars, authVars>>

\* the awaited upload resolves without error: the next iteration up to its
\* await, or after the last file the toast, loadMedia() and finally
UploadSucceeds ==
    /\ upload # NoUpload
    /\ store' = store \cup {upload.path}
    /\ IF upload.i < Len(upload.files)
       THEN LET file == upload.files[upload.i + 1]
                path == UploadPath(upload.user, file, now)
            IN  /\ upload' = [upload EXCEPT !.i = @ + 1, !.path = path]
                /\ UNCHANGED <<uploading, toasts, lists>>
       ELSE /\ toasts' = Append(toasts, "Upload successful")
            /\ lists' = LoadMediaCall(lists, upload.user)
            /\ uploading' = FALSE
            /\ upload' = NoUpload
    /\ UNCHANGED <<now, media, galleryLoading, editingMedia, deleteDialog, view,
                   saves, deletes>>
    /\ UNCHANGED <<editorVars, viewerVars, authVars>>

\* A variant that goes on with the next file after an error
UploadFails_Continue ==
    /\ upload # NoUpload
    /\ IF upload.i < Len(upload.files)
       THEN LET file == upload.files[upload.i + 1]
                path == UploadPath(upload.user, file, now)
            IN  /\ upload' = [upload EXCEPT !.i = @ + 1, !.path = path]
                /\ UNCHANGED <<uploading, toasts>>
       ELSE /\ toasts' = Append(toasts, "Upload failed")
            /\ uploading' = FALSE
            /\ upload' = NoUpload
    /\ UNCHANGED <<store, now, media, galleryLoading, editingMedia, deleteDialog, view,
                   saves, lists, deletes>>
    /\ UNCHANGED <<editorVars, viewerVars, authVars>>

\* A variant without the finally block
UploadFails_NoFinally ==
    /\ upload # NoUpload
    /\ toasts' = Append(toasts, "Upload failed")
    /\ upload' = NoUpload
    /\ UNCHANGED <<store, now, media, galleryLoading, uploading, editingMedia,
                   deleteDialog, view, saves, lists, deletes>>
    /\ UNCHANGED <<editorVars, viewerVars, authVars>>

\* the awaited upload resolves with an error: throw, catch (toast), finally
UploadFails ==
    /\ upload # NoUpload
    /\ toasts' = Append(toasts, "Upload failed")
    /\ uploading' = FALSE
    /\ upload' = NoUpload
    /\ UNCHANGED <<store, now, media, galleryLoading, editingMedia, deleteDialog, view,
                   saves, lists, deletes>>
    /\ UNCHANGED <<editorVars, viewerVars, authVars>>

----------------------------------------------------------------------------
(* Gallery: handleDelete *)

\* onClick of an item's delete button
OpenDeleteDialog ==
    \E k \in 1..Len(media) :
        /\ view = "grid"
        /\ ~galleryLoading
        /\ deleteDialog' = media[k]
        /\ UNCHANGED <<store, now, media, galleryLoading, uploading, editingMedia, view,
                       toasts, upload, saves, lists, deletes>>
        /\ UNCHANGED <<editorVars, viewerVars, authVars>>

\* onOpenChange(false)
CloseDeleteDialog ==
    /\ view = "grid"
    /\ deleteDialog # NoItem
    /\ deleteDialog' = NoItem
    /\ UNCHANGED <<store, now, media, galleryLoading, uploading, editingMedia, view,
                   toasts, upload, saves, lists, deletes>>
    /\ UNCHANGED <<editorVars, viewerVars, authVars>>

\* onConfirm={() => handleDelete(deleteDialog)}, up to the await
handleDelete ==
    /\ view = "grid"
    /\ deleteDialog # NoItem
    /\ user # NoUser
    /\ CanStart(2)
    /\ deletes' = Append(deletes, [user |-> user, item |-> deleteDialog])
    /\ UNCHANGED <<store, now, media, galleryLoading, uploading, editingMedia,
                   deleteDialog, view, toasts, upload, saves, lists>>
    /\ UNCHANGED <<editorVars, viewerVars, authVars>>

\* remove resolves without error: toast, loadMedia(), setDeleteDialog(null)
DeleteSucceeds ==
    \E k \in 1..Len(deletes) :
        /\ deletes' = RemoveAt(deletes, k)
        /\ store' = store \ {FilePath(deletes[k].user, deletes[k].item.name)}
        /\ toasts' = Append(toasts, "Deleted")
        /\ lists' = LoadMediaCall(lists, deletes[k].user)
        /\ deleteDialog' = NoItem
        /\ UNCHANGED <<now, media, galleryLoading, uploading, editingMedia, view,
                       upload, saves>>
        /\ UNCHANGED <<editorVars, viewerVars, authVars>>

\* remove resolves with an error: throw, catch (toast), setDeleteDialog(null)
DeleteFails ==
    \E k \in 1..Len(deletes) :
        /\ deletes' = RemoveAt(deletes, k)
        /\ toasts' = Append(toasts, "Delete failed")
        /\ deleteDialog' = NoItem
        /\ UNCHANGED <<store, now, media, galleryLoading, uploading, editingMedia,
                       view, upload, saves, lists>>
        /\ UNCHANGED <<editorVars, viewerVars, authVars>>

----------------------------------------------------------------------------
(* Gallery: the editor's owner *)

\* onClick of an item's edit button, rendered when item.type === 'image'
OpenEditor ==
    \E k \in 1..Len(media) :
        /\ view = "grid"
        /\ ~galleryLoading
        /\ media[k].type = "image"
        /\ editingMedia' = media[k]
        /\ UNCHANGED <<store, now, media, galleryLoading, uploading, deleteDialog, view,
                       toasts, upload, saves, lists, deletes>>
        /\ UNCHANGED <<editorVars, viewerVars, authVars>>

\* onClose={() => setEditingMedia(null)}
onClose ==
    /\ view = "grid"
    /\ editingMedia # NoItem
    /\ editingMedia' = NoItem
    /\ UNCHANGED <<store, now, media, galleryLoading, uploading, deleteDialog, view,
                   toasts, upload, saves, lists, deletes>>
    /\ UNCHANGED <<editorVars, viewerVars, authVars>>

SavePath(u, name, t) == FilePath(u, EditedFileName(t, FileExt(name)))

\* onSave(editedBlob), up to the await
onSave ==
    /\ view = "grid"
    /\ editingMedia # NoItem
    /\ user # NoUser
    /\ CanStart(2)
    /\ saves' = Append(saves, [user |-> user,
                               path |-> SavePath(user, editingMedia.name, now)])
    /\ UNCHANGED <<store, now, media, galleryLoading, uploading, editingMedia,
                   deleteDialog, view, toasts, upload, lists, deletes>>
    /\ UNCHANGED <<editorVars, viewerVars, authVars>>

\* upload resolves without error: toast, loadMedia(), setEditingMedia(null)
SaveSucceeds ==
    \E k \in 1..Len(saves) :
        /\ saves' = RemoveAt(saves, k)
        /\ store' = store \cup {saves[k].path}
        /\ toasts' = Append(toasts, "Success")
        /\ lists' = LoadMediaCall(lists, saves[k].user)
        /\ editingMedia' = NoItem
        /\ UNCHANGED <<now, media, galleryLoading, uploading, deleteDialog, view,
                       upload, deletes>>
        /\ UNCHANGED <<editorVars, viewerVars, authVars>>

\* upload resolves with an error: throw, catch (toast)
SaveFails ==
    \E k \in 1..Len(saves) :
        /\ saves' = RemoveAt(saves, k)
        /\ toasts' = Append(toasts, "Save failed")
        /\ UNCHANGED <<store, now, media, galleryLoading, uploading, editingMedia,
                       deleteDialog, view, upload, lists, deletes>>
        /\ UNCHANGED <<editorVars, viewerVars, authVars>>

----------------------------------------------------------------------------
(* Gallery: the 3D view *)

\* the route's search changes between /gallery and /gallery?view=3d; the
\* ThreeDViewer is mounted (currentIndex 0) while view is '3d'
Navigate ==
    /\ view' = IF view = "grid" THEN "3d" ELSE "grid"
    /\ currentIndex' = 0
    /\ UNCHANGED <<store, now, media, galleryLoading, uploading, editingMedia,
                   deleteDialog, toasts, upload, saves, lists, deletes>>
    /\ UNCHANGED <<editorVars, authVars>>

\* <ThreeDViewer media={media.filter(m => m.type === 'image')} />
ViewerMedia == IF view = "3d" THEN ImagesOf(media) ELSE <<>>

\* media.map((m) => m.url)
imageUrls == [i \in 1..Len(ViewerMedia) |-> ViewerMedia[i].url]

\* A variant that wraps one too late
NextIndex_OffByOne(prev, n) == IF prev = n THEN 0 ELSE prev + 1

\* (prev) => (prev === imageUrls.length - 1 ? 0 : prev + 1)
NextIndex(prev, n) == IF prev = n - 1 THEN 0 ELSE prev + 1

\* (prev) => (prev === 0 ? imageUrls.length - 1 : prev - 1)
PreviousIndex(prev, n) == IF prev = 0 THEN n - 1 ELSE prev - 1

\* the buttons are rendered with at least one image and enabled with two
handleNext ==
    /\ view = "3d"
    /\ Len(imageUrls) > 1
    /\ currentIndex' = NextIndex(currentIndex, Len(imageUrls))
    /\ UNCHANGED <<editorVars, galleryVars, authVars>>

handlePrevious ==
    /\ view = "3d"
    /\ Len(imageUrls) > 1
    /\ currentIndex' = PreviousIndex(currentIndex, Len(imageUrls))
    /\ UNCHANGED <<editorVars, galleryVars, authVars>>

----------------------------------------------------------------------------
(* Gallery: initial states *)

\* the editor not open: its state as useState creates it, nothing in flight
EditorUnmounted ==
    /\ imageUrl = ""
    /\ loading = {}
    /\ image = NoImage
    /\ brightness = 100
    /\ contrast = 100
    /\ saturation = 100
    /\ sharpness = 0
    /\ rotation = 0
    /\ zoom = One
    /\ canvas = DefaultCanvas
    /\ ctx = DefaultCtx
    /\ imageData = NoImageData
    /\ sharpened = NoImageData
    /\ toBlobPending = <<>>
    /\ onSaveBlob = NoBlob
    /\ broken = {}

\* the auth provider with u signed in and the profile fetched
AuthSignedIn(u) ==
    /\ user = u
    /\ session = [user |-> u]
    /\ username = "alice"
    /\ theme = "dark"
    /\ authLoading = FALSE
    /\ authSession = [user |-> u]
    /\ authEvents = <<>>
    /\ getSessionPending = FALSE
    /\ timers = <<>>
    /\ fetches = <<>>
    /\ signOuts = 0

\* The page as it is mounted for a signed-in user: the effect on [user] has
\* called loadMedia(), whose list is in flight.
InitGallery ==
    /\ EditorUnmounted
    /\ ViewerUnmounted
    /\ \E u \in Users :
        /\ AuthSignedIn(u)
        /\ store \in {S \in SUBSET {FilePath(u, n) : n \in StoredNames} :
                            Cardinality(S) <= MaxStored}
        /\ lists = <<[user |-> u]>>
    /\ now = 0
    /\ media = <<>>
    /\ galleryLoading = TRUE
    /\ uploading = FALSE
    /\ editingMedia = NoItem
    /\ deleteDialog = NoItem
    /\ view \in {"grid", "3d"}
    /\ toasts = <<>>
    /\ upload = NoUpload
    /\ saves = <<>>
    /\ deletes = <<>>

\* The Media Store answers every request.
StoreAnswers ==
    /\ WF_vars(ListFails \/ ListSucceeds)
    /\ WF_vars(UploadFails \/ UploadSucceeds)
    /\ WF_vars(DeleteFails \/ DeleteSucceeds)
    /\ WF_vars(SaveFails \/ SaveSucceeds)

\* the page with its grid, the editor, the delete dialog and the 3D view
NextGallery ==
    \/ ListSucceeds
    \/ ListFails
    \/ OpenDeleteDialog
    \/ CloseDeleteDialog
    \/ handleDelete
    \/ DeleteSucceeds
    \/ DeleteFails
    \/ OpenEditor
    \/ onClose
    \/ onSave
    \/ SaveSucceeds
    \/ SaveFails
    \/ Navigate

SpecGallery == InitGallery /\ [][NextGallery]_vars /\ StoreAnswers

\* the page with its upload input and the delete dialog
NextUpload ==
    \/ ListSucceeds
    \/ ListFails
    \/ Tick
    \/ handleUpload
    \/ UploadSucceeds
    \/ UploadFails
    \/ OpenDeleteDialog
    \/ CloseDeleteDialog
    \/ handleDelete
    \/ DeleteSucceeds
    \/ DeleteFails

\* the page opened at the grid, the folder empty or holding one file
InitUpload ==
    /\ InitGallery
    /\ view = "grid"
    /\ store \subseteq {FilePath(u, Mp4B) : u \in Users}

SpecUpload == InitUpload /\ [][NextUpload]_vars /\ StoreAnswers

\* the 3D view over a media list that has been loaded
MaxImages == 3
ViewerNames == StoredNames \cup {PngA, PngC}

MediaLists(u) ==
    {MediaItems(u, data) :
        data \in UNION {{d \in [1..n -> ViewerNames] :
                            \A i, j \in 1..n : i # j => d[i] # d[j]} : n \in 0..MaxImages}}

InitViewer ==
    /\ EditorUnmounted
    /\ \E u \in Users :
        /\ AuthSignedIn(u)
        /\ media \in MediaLists(u)
        /\ store = {media[k].url : k \in 1..Len(media)}
    /\ currentIndex = 0
    /\ now = 0
    /\ galleryLoading = FALSE
    /\ uploading = FALSE
    /\ editingMedia = NoItem
    /\ deleteDialog = NoItem
    /\ view = "3d"
    /\ toasts = <<>>
    /\ upload = NoUpload
    /\ saves = <<>>
    /\ lists = <<>>
    /\ deletes = <<>>

NextViewer ==
    \/ handleNext
    \/ handlePrevious

SpecViewer == InitViewer /\ [][NextViewer]_vars

----------------------------------------------------------------------------
(* Auth provider *)

galleryButToasts == <<store, now, media, galleryLoading, uploading, editingMedia,
                      deleteDialog, view, upload, saves, lists, deletes>>

\* the row of the profiles table of a user
ProfileOf(u) == [username |-> "alice", theme_preference |-> "light"]

\* the toasts signIn and signOut may still show
AuthToastsDue ==
    signOuts + Cardinality({k \in 1..Len(authEvents) : authEvents[k].signOut})

\* signIn: signInWithPassword resolves without error, the client holds the
\* session and notifies the subscriber; toast
signIn ==
    \E u \in Users :
        /\ authSession = NoSession
        /\ Len(toasts) + AuthToastsDue + 1 <= MaxToasts
        /\ authSession' = [user |-> u]
        /\ authEvents' = Append(authEvents, [user |-> u, signOut |-> FALSE])
        /\ toasts' = Append(toasts, "Welcome back!")
        /\ UNCHANGED <<user, session, username, theme, authLoading, getSessionPending,
                       timers, fetches, signOuts>>
        /\ UNCHANGED <<editorVars, galleryButToasts, viewerVars>>

\* signOut up to its await: the client drops the session and notifies the
\* subscriber
signOut ==
    /\ user # NoUser
    /\ authSession # NoSession
    /\ Len(toasts) + AuthToastsDue + 1 <= MaxToasts
    /\ authSession' = NoSession
    /\ authEvents' = Append(authEvents, [user |-> NoUser, signOut |-> TRUE])
    /\ UNCHANGED <<user, session, username, theme, authLoading, getSessionPending,
                   timers, fetches, signOuts>>
    /\ UNCHANGED <<editorVars, galleryVars, viewerVars>>

\* the session ends without signOut being called here (it expired, or the
\* user signed out elsewhere)
SessionEnds ==
    /\ authSession # NoSession
    /\ authSession' = NoSession
    /\ authEvents' = Append(authEvents, [user |-> NoUser, signOut |-> FALSE])
    /\ UNCHANGED <<user, session, username, theme, authLoading, getSessionPending,
                   timers, fetches, signOuts>>
    /\ UNCHANGED <<editorVars, galleryVars, viewerVars>>

\* the onAuthStateChange callback
AuthStateChange ==
    /\ authEvents # <<>>
    /\ authEvents' = Tail(authEvents)
    /\ session' = [user |-> Head(authEvents).user]
    /\ user' = Head(authEvents).user
    /\ IF Head(authEvents).user # NoUser
       THEN /\ timers' = Append(timers, Head(authEvents).user)
            /\ UNCHANGED username
       ELSE /\ username' = NoName
            /\ UNCHANGED timers
    /\ signOuts' = IF Head(authEvents).signOut THEN signOuts + 1 ELSE signOuts
    /\ UNCHANGED <<theme, authLoading, authSession, getSessionPending, fetches>>
    /\ UNCHANGED <<editorVars, galleryVars, viewerVars>>

\* setTimeout(() => { fetchProfile(session.user.id) }, 0) runs: fetchProfile
\* up to its await
TimerFires ==
    /\ timers # <<>>
    /\ timers' = Tail(timers)
    /\ fetches' = Append(fetches, Head(timers))
    /\ UNCHANGED <<user, session, username, theme, authLoading, authSession, authEvents,
                   getSessionPending, signOuts>>
    /\ UNCHANGED <<editorVars, galleryVars, viewerVars>>

\* getSession().then(...)
GetSessionResolves ==
    /\ getSessionPending
    /\ getSessionPending' = FALSE
    /\ session' = authSession
    /\ user' = authSession.user
    /\ fetches' = IF authSession.user # NoUser THEN Append(fetches, authSession.user)
                  ELSE fetches
    /\ authLoading' = FALSE
    /\ UNCHANGED <<username, theme, authSession, authEvents, timers, signOuts>>
    /\ UNCHANGED <<editorVars, galleryVars, viewerVars>>

\* fetchProfile after its await, with data
FetchProfileSucceeds ==
    \E k \in 1..Len(fetches) :
        /\ fetches' = RemoveAt(fetches, k)
        /\ username' = ProfileOf(fetches[k]).username
        /\ theme' = ProfileOf(fetches[k]).theme_preference
        /\ UNCHANGED <<user, session, authLoading, authSession, authEvents,
                       getSessionPending, timers, signOuts>>
        /\ UNCHANGED <<editorVars, galleryVars, viewerVars>>

\* fetchProfile after its await, without data
FetchProfileFails ==
    \E k \in 1..Len(fetches) :
        /\ fetches' = RemoveAt(fetches, k)
        /\ UNCHANGED <<user, session, username, theme, authLoading, authSession,
                       authEvents, getSessionPending, timers, signOuts>>
        /\ UNCHANGED <<editorVars, galleryVars, viewerVars>>

\* signOut after its await: setUsername(null); toast
SignOutReturns ==
    /\ signOuts > 0
    /\ signOuts' = signOuts - 1
    /\ username' = NoName
    /\ toasts' = Append(toasts, "Signed out")
    /\ UNCHANGED <<user, session, theme, authLoading, authSession, authEvents,
                   getSessionPending, timers, fetches>>
    /\ UNCHANGED <<editorVars, galleryButToasts, viewerVars>>

\* The provider as it is mounted: the effect has subscribed and called
\* getSession(); the client may hold a session from an earlier visit.
InitAuth ==
    /\ EditorUnmounted
    /\ GalleryUnmounted
    /\ ViewerUnmounted
    /\ user = NoUser
    /\ session = NoSession
    /\ username = NoName
    /\ theme = "dark"
    /\ authLoading = TRUE
    /\ authSession \in {NoSession} \cup {[user |-> u] : u \in Users}
    /\ authEvents = <<>>
    /\ getSessionPending = TRUE
    /\ timers = <<>>
    /\ fetches = <<>>
    /\ signOuts = 0

NextAuth ==
    \/ signIn
    \/ signOut
    \/ SessionEnds
    \/ AuthStateChange
    \/ TimerFires
    \/ GetSessionResolves
    \/ FetchProfileSucceeds
    \/ FetchProfileFails
    \/ SignOutReturns

SpecAuth == InitAuth /\ [][NextAuth]_vars

----------------------------------------------------------------------------
(* Specifications of the editor *)

\* the editor with its sliders and the Rotate button, each event followed by
\* its render
Next ==
    \/ ImgOnload
    \/ ImgOnerror
    \/ SetBrightness
    \/ SetContrast
    \/ SetSaturation
    \/ SetSharpness
    \/ handleRotate

Spec == Init /\ [][Next]_vars

\* the editor with its zoom buttons
NextZoom ==
    \/ ImgOnload
    \/ ImgOnerror
    \/ handleZoomIn
    \/ handleZoomOut

SpecZoom == Init /\ [][NextZoom]_vars

\* the editor with its Save button
NextSave ==
    \/ ImgOnload
    \/ ImgOnerror
    \/ handleRotate
    \/ handleSave
    \/ ToBlobCallback

SpecSave == Init /\ [][NextSave]_vars

\* The render as a function of the image and the six parameters: the editor
\* at the moment the decode completes, the parameters having been set to any
\* of the values the handlers produce while the image was loading.
ZoomSamples == {Half, Dbl(6, -568), One, Dbl(12, 64), Three}

InitRender ==
    /\ imageUrl \in Urls
    /\ loading = {imageUrl}
    /\ image = NoImage
    /\ brightness \in BrightnessInputs
    /\ contrast \in ContrastInputs
    /\ saturation \in SaturationInputs
    /\ sharpness \in SharpnessInputs
    /\ rotation \in {0, 90, 180, 270}
    /\ zoom \in ZoomSamples
    /\ canvas = DefaultCanvas
    /\ ctx = DefaultCtx
    /\ imageData = NoImageData
    /\ sharpened = NoImageData
    /\ toBlobPending = <<>>
    /\ onSaveBlob = NoBlob
    /\ broken = {}
    /\ GalleryUnmounted
    /\ ViewerUnmounted
    /\ AuthUnmounted

NextRender ==
    \/ ImgOnload
    \/ ImgOnerror

SpecRender == InitRender /\ [][NextRender]_vars

\* the editor whose owner changes imageUrl while it is open
NextLoad ==
    \/ SetImageUrl
    \/ ImgOnload
    \/ ImgOnerror
    \/ SetSharpness
    \/ handleRotate

SpecLoad == Init /\ [][NextLoad]_vars

----------------------------------------------------------------------------
(* Properties *)

Rendered == image # NoImage
SharpenRan == Rendered /\ sharpness > 0

\* JS index of channel c of the pixel (x, y) of a buffer of width w
Idx(w, x, y, c) == (y * w + x) * 4 + c

PixelsOf(bm) == (0..(bm.width - 1)) \X (0..(bm.height - 1))
IsBorder(bm, p) ==
    p[1] = 0 \/ p[1] = bm.width - 1 \/ p[2] = 0 \/ p[2] = bm.height - 1
BorderOf(bm) == {p \in PixelsOf(bm) : IsBorder(bm, p)}
InteriorOf(bm) == {p \in PixelsOf(bm) : ~IsBorder(bm, p)}

\* channel c of the pixel (x, y) of an ImageData
In(id, x, y, c) == id.data[Idx(id.width, x, y, c) + 1]

\* 100 * ((1 + 4k) in(x,y,c) - k (in(x-1,y,c) + in(x+1,y,c) + in(x,y-1,c) + in(x,y+1,c))),
\* k = sh / 100, clamped to 100 * [0, 255]
Sharp100(id, x, y, c, sh) ==
    MathMin(25500, MathMax(0,
        (100 + 4 * sh) * In(id, x, y, c)
        - sh * (In(id, x - 1, y, c) + In(id, x + 1, y, c)
                + In(id, x, y - 1, c) + In(id, x, y + 1, c))))

BorderUnmodified ==
    SharpenRan =>
        \A p \in BorderOf(imageData) : \A c \in 0..3 :
            ByteAt(canvas, Idx(canvas.width, p[1], p[2], c)) = In(imageData, p[1], p[2], c)

\* C3: no blob is handed to onSave by an export requested before an image
\* was loaded and rendered: while no image is loaded nothing has been handed
\* over, and what is handed over is never the never-rendered default surface.
NoExportBeforeRender ==
    onSaveBlob # NoBlob =>
        /\ image # NoImage
        /\ [width |-> onSaveBlob.width, height |-> onSaveBlob.height,
            data |-> onSaveBlob.data] # DefaultCanvas

\* C4 as stated: every interior colour sample of the sharpened output equals
\* the kernel formula over the pre-sharpen data, clamped to [0,255].
SharpenExact ==
    SharpenRan =>
        \A p \in InteriorOf(imageData) : \A c \in 0..2 :
            100 * In(sharpened, p[1], p[2], c) = Sharp100(imageData, p[1], p[2], c, sharpness)

\* C4 as amended: every interior colour sample of the sharpened output is the
\* kernel formula over the pre-sharpen data (centre 1 + 4k, the four
\* orthogonal neighbours -k, diagonals 0), clamped to [0,255] and rounded to
\* a nearest integer: it is within 1/2 of the clamped value.
SharpenRounded ==
    SharpenRan =>
        \A p \in InteriorOf(imageData) : \A c \in 0..2 :
            Abs(100 * In(sharpened, p[1], p[2], c)
                - Sharp100(imageData, p[1], p[2], c, sharpness)) <= 50

\* the kernel acted on an interior sample whose value is neither clamped nor
\* whole, and on one that is clamped
SharpenRoundedWitness ==
    /\ SharpenRan
    /\ \E p \in InteriorOf(imageData) : \E c \in 0..2 :
          LET v == Sharp100(imageData, p[1], p[2], c, sharpness)
          IN  v > 0 /\ v < 25500 /\ v % 100 # 0
    /\ \E p \in InteriorOf(imageData) : \E c \in 0..2 :
          LET v == (100 + 4 * sharpness) * In(imageData, p[1], p[2], c)
          IN  Sharp100(imageData, p[1], p[2], c, sharpness) = 25500 /\ v > 25500

\* C5: with sharpness = 0 the surface after the render is the composited
\* image, in every pixel and channel.
NoSharpenIsComposite ==
    (Rendered /\ sharpness = 0) =>
        canvas = Composite(image, brightness, contrast, saturation, rotation, zoom,
                           canvas, ctx).canvas

NoSharpenIsCompositeWitness ==
    /\ Rendered
    /\ sharpness = 0
    /\ canvas.data # <<>>
    /\ \E p \in BorderOf(canvas) : ByteAt(canvas, Idx(canvas.width, p[1], p[2], 3)) # 0

\* C6: at every interior pixel the alpha of the sharpened output is the alpha
\* of the pre-sharpen input.
AlphaCopied ==
    SharpenRan =>
        \A p \in InteriorOf(imageData) :
            In(sharpened, p[1], p[2], 3) = In(imageData, p[1], p[2], 3)

AlphaCopiedWitness ==
    /\ SharpenRan
    /\ \E p \in InteriorOf(imageData) : In(sharpened, p[1], p[2], 3) = 255
    /\ \E p \in InteriorOf(imageData) : In(sharpened, p[1], p[2], 3) = 0

\* C7: rotation is one of 0, 90, 180, 270; RotateStep takes it to
\* (rotation + 90) mod 360, and four RotateSteps take it back to itself.
RotationCycle ==
    /\ rotation \in {0, 90, 180, 270}
    /\ RotateStep(rotation) = (rotation + 90) % 360
    /\ RotateStep(RotateStep(RotateStep(RotateStep(rotation)))) = rotation

RotationCycleWitness == Rendered /\ rotation = 270

\* C8: zoom lies in [0.5, 3.0]; ZoomIn yields exactly 3.0 when zoom + 0.1
\* exceeds 3.0 and otherwise zoom + 0.1 (as a double: to within the rounding
\* of the sum and of 0.1); ZoomOut yields exactly 0.5 when zoom - 0.1 is below
\* 0.5 and otherwise zoom - 0.1.
ZoomClamped ==
    LET up == ZoomInStep(zoom)
        down == ZoomOutStep(zoom)
        Near(x, y, t) == y.t = t /\ 2 * Abs(y.d - x.d) <= Ulp(y.t, y.d) + 2 * PointOne.d
    IN  /\ ~DblLess(zoom, Half)
        /\ ~DblLess(Three, zoom)
        /\ IF DblLess(Three, Dbl(zoom.t + 1, zoom.d))
           THEN up = Three
           ELSE Near(zoom, up, zoom.t + 1)
        /\ IF DblLess(Dbl(zoom.t - 1, zoom.d), Half)
           THEN down = Half
           ELSE Near(zoom, down, zoom.t - 1)

\* the lower clamp has acted, on a loaded image
ZoomClampedWitness == Rendered /\ zoom = Half

\* C9: while image is unset the surface has the contents and the dimensions
\* it had at the start, whatever the parameters have become.
UnloadedSurfaceKept ==
    image = NoImage => (canvas = DefaultCanvas /\ ctx = DefaultCtx)

UnloadedSurfaceKeptWitness ==
    /\ image = NoImage
    /\ sharpness > 0
    /\ rotation # 0
    /\ brightness # 100

\* C10: rendering again with the same image and parameters leaves the
\* surface as the first render left it.
RenderIdempotent ==
    Rendered =>
        applyFilters(image, brightness, contrast, saturation, sharpness, rotation, zoom,
                     canvas, ctx).canvas = canvas

RenderIdempotentWitness ==
    /\ Rendered
    /\ rotation = 90
    /\ zoom # One
    /\ sharpness > 0
    /\ canvas.data # <<>>

----------------------------------------------------------------------------
(* Properties of the load *)

\* The editor holds the image of the url it was given last, rendered.
Ready ==
    /\ image = Decode(imageUrl)
    /\ canvas.width = image.width
    /\ canvas.height = image.height

\* C11: when the decode of the current url has failed, an error has been
\* signalled to the user (a notification was shown).
LoadErrorSignalled ==
    imageUrl \in broken => toasts # <<>>

\* C15: once an image is loaded, the surface is the complete render of the
\* current image under the current parameters, drawn on a new surface: it
\* does not depend on what the surface held before.
SurfaceIsFullRender ==
    image # NoImage =>
        /\ canvas = applyFilters(image, brightness, contrast, saturation, sharpness,
                                 rotation, zoom, DefaultCanvas, DefaultCtx).canvas
        /\ ctx = DefaultCtx

SurfaceIsFullRenderWitness ==
    /\ image # NoImage
    /\ brightness # 100
    /\ contrast # 100
    /\ saturation # 100
    /\ sharpness > 0
    /\ rotation = 270
    /\ canvas.data # <<>>

\* C16: when no decode is in flight any more and none has failed, the image
\* held is the image of the url given last.
LatestUrlWins ==
    (loading = {} /\ broken = {} /\ image # NoImage) => image = Decode(imageUrl)

----------------------------------------------------------------------------
(* Properties of the gallery *)

SameLetter(a, b) ==
    a = b \/ \E i \in 1..26 : {a, b} = {Upper[i], Lower[i]}

EndsWithIgnoreCase(name, suffix) ==
    /\ Len(name) >= Len(suffix)
    /\ \A i \in 1..Len(suffix) : SameLetter(name[Len(name) - Len(suffix) + i], suffix[i])

VideoExtensions ==
    {<<".", "m", "p", "4">>, <<".", "w", "e", "b", "m">>, <<".", "m", "o", "v">>}

NamedVideo(name) == \E e \in VideoExtensions : EndsWithIgnoreCase(name, e)

\* C12: a listed file is a video exactly when its name ends, whatever the
\* case of its letters, in .mp4, .webm or .mov, and an image otherwise; the
\* item open in the editor and the items given to the 3D viewer are images.
ClassifiedByExtension ==
    /\ \A k \in 1..Len(media) :
          media[k].type = IF NamedVideo(media[k].name) THEN "video" ELSE "image"
    /\ editingMedia # NoItem =>
          (editingMedia.type = "image" /\ ~NamedVideo(editingMedia.name))
    /\ \A k \in 1..Len(ViewerMedia) :
          (ViewerMedia[k].type = "image" /\ ~NamedVideo(ViewerMedia[k].name))

ClassifiedByExtensionWitness ==
    /\ view = "3d"
    /\ Len(ViewerMedia) >= 1
    /\ \E k \in 1..Len(media) :
          media[k].type = "video" /\ toLowerCase(media[k].name) # media[k].name
    /\ \E k \in 1..Len(ViewerMedia) :
          \E e \in VideoExtensions : \E j \in 1..Len(ViewerMedia[k].name) :
              EndsWithIgnoreCase(SubSeq(ViewerMedia[k].name, 1, j), e)
    /\ editingMedia # NoItem

\* C13: a file is never handed to the store under the path of a file the
\* same user has already stored: the paths of any two uploaded files differ.
UploadPathsDistinct ==
    [][(upload' # NoUpload /\ upload' # upload) => upload'.path \notin store']_vars

BatchEnds == upload # NoUpload /\ upload' = NoUpload

\* C14: every handleUpload that has started ends, and ends with uploading
\* false; every handleDelete ends, and ends with the delete dialog cleared;
\* every loadMedia ends, and ends with loading false.
UsableAfterStoreError ==
    /\ [][BatchEnds => ~uploading']_vars
    /\ [][Len(deletes') < Len(deletes) => deleteDialog' = NoItem]_vars
    /\ [][Len(lists') < Len(lists) => ~galleryLoading']_vars
    /\ (uploading ~> ~uploading)
    /\ (upload # NoUpload ~> upload = NoUpload)
    /\ (deletes # <<>> ~> (deletes = <<>> /\ deleteDialog = NoItem))
    /\ (lists # <<>> ~> (lists = <<>> /\ ~galleryLoading))

UsableAfterStoreErrorWitness ==
    /\ \E k \in 1..Len(toasts) : toasts[k] = "Upload failed"
    /\ \E k \in 1..Len(toasts) : toasts[k] = "Delete failed"
    /\ ~uploading
    /\ upload = NoUpload
    /\ deletes = <<>>
    /\ deleteDialog = NoItem
    /\ ~galleryLoading

\* C18: a batch uploads its files one at a time in the order selected, each
\* after the one before it was stored; the batch that ends before its last
\* file was stored shows one toast, 'Upload failed', starts no loadMedia and
\* stores nothing more, the files stored before staying stored.
BatchStopsAtFirstFailure ==
    [][/\ (upload = NoUpload /\ upload' # NoUpload) => upload'.i = 1
       /\ (upload # NoUpload /\ upload' # NoUpload /\ upload' # upload) =>
            /\ upload'.files = upload.files
            /\ upload'.i = upload.i + 1
            /\ upload.path \in store'
       /\ (BatchEnds /\ toasts' # Append(toasts, "Upload successful")) =>
            /\ toasts' = Append(toasts, "Upload failed")
            /\ lists' = lists
            /\ store' = store
       /\ (BatchEnds /\ upload.i < Len(upload.files)) =>
            toasts' = Append(toasts, "Upload failed")
       /\ (BatchEnds /\ toasts' = Append(toasts, "Upload successful")) =>
            /\ upload.i = Len(upload.files)
            /\ upload.path \in store'
      ]_vars

BatchStopsAtFirstFailureWitness ==
    /\ upload = NoUpload
    /\ toasts = <<"Upload failed">>
    /\ lists = <<>>
    /\ \E u \in Users : UploadPath(u, Mp4B, 0) \in store
    /\ \A k \in 1..Len(media) : media[k].name # UploadFileName(0, FileExt(Mp4B))

----------------------------------------------------------------------------
(* Properties of the 3D viewer *)

RECURSIVE NextTimes(_, _, _)
NextTimes(k, index, n) ==
    IF k = 0 THEN index ELSE NextTimes(k - 1, NextIndex(index, n), n)

\* C19: with n >= 1 images the index stays within 0..n-1, handleNext wraps
\* from n-1 to 0 and handlePrevious from 0 to n-1, handlePrevious undoes
\* handleNext, and n times handleNext leads back to the index.
IndexCycles ==
    LET n == Len(imageUrls)
    IN  n >= 1 =>
            /\ currentIndex \in 0..(n - 1)
            /\ NextIndex(n - 1, n) = 0
            /\ PreviousIndex(0, n) = n - 1
            /\ PreviousIndex(NextIndex(currentIndex, n), n) = currentIndex
            /\ NextTimes(n, currentIndex, n) = currentIndex

IndexCyclesWitness ==
    /\ Len(imageUrls) = MaxImages
    /\ currentIndex = MaxImages - 1

----------------------------------------------------------------------------
(* Properties of the auth provider *)

\* C17: whenever no user is signed in, username is null.
SignedOutHasNoUsername ==
    user = NoUser => username = NoName

====
